---- MODULE Spec2Model ----
(***************************************************************************)
(* Scribey Companion: the upload queue (DataUploader), the change detector *)
(* (FileWatcher.handleFileChange / start / stop) and the domain extractor  *)
(* (FileWatcher.parseLuaData) as one state machine.                        *)
(*                                                                         *)
(* JavaScript runs the handlers on one thread: a handler runs without      *)
(* interruption up to its next await.  Every action below is one such      *)
(* run-to-await segment.                                                   *)
(***************************************************************************)
EXTENDS Integers, Sequences, FiniteSets, TLC

VARIABLES
    now,                  \* Date.now(), in ms
    uploadQueue,          \* DataUploader.uploadQueue
    isUploading,          \* DataUploader.isUploading
    lastUploadAttempt,    \* DataUploader.lastUploadAttempt
    consecutiveFailures,  \* DataUploader.consecutiveFailures
    cycles,               \* the executing processUploadQueue calls, each awaiting one upload,
                          \* and the path of the handleFileChange that awaits the call ("": none)
    timers,               \* due times of the pending setTimeout(processUploadQueue, 1000)
    requests,             \* in-flight testConnection / forceSyncAll requests
    isActive,             \* FileWatcher.isActive
    watchedFiles,         \* FileWatcher.watchedFiles
    lastUpdate,           \* FileWatcher.lastUpdate (0: null)
    lastError,            \* FileWatcher.lastError ("none": null)
    lastFileContents,     \* FileWatcher.lastFileContents (0: no entry)
    fileUploadAttempt,    \* FileWatcher.lastUploadAttempt (0: no entry)
    watcher,              \* the paths FileWatcher.watcher watches ({}: null)
    leaked,               \* the paths of watchers that were replaced without close()
    starting,             \* the start() calls awaiting glob: their install roots
    autoUpload,           \* the config store's autoUpload
    wowPath,              \* the config store's wowPath: an index of Roots (0: unset)
    characters,           \* the config store's characters
    storedDeviceId,       \* the config store's deviceId ("": undefined)
    deviceId,             \* ConfigManager._deviceId ("": null)
    machineIdPending,     \* initializeDeviceId is awaiting machineId()
    ex,                   \* a parseLuaData call on its own: input and result
    hist                  \* history of what happened (never read by the program)

uploaderVars == <<uploadQueue, isUploading, lastUploadAttempt, consecutiveFailures,
                  cycles, timers, requests>>

watcherVars == <<isActive, watchedFiles, lastUpdate, lastError, lastFileContents,
                 fileUploadAttempt, watcher, leaked, starting>>

vars == <<now, uploadQueue, isUploading, lastUploadAttempt, consecutiveFailures,
          cycles, timers, requests, isActive, watchedFiles, lastUpdate, lastError,
          lastFileContents, fileUploadAttempt, watcher, leaked, starting,
          autoUpload, wowPath, characters, storedDeviceId, deviceId,
          machineIdPending, ex, hist>>

---------------------------------------------------------------------------
(* Bounds of the model *)

MaxItems == 2        \* uploadData calls in one behaviour
MaxTicks == 4        \* clock ticks in one behaviour
MaxFailures == 6     \* cap of the consecutive-failure counter
MaxRequests == 1     \* testConnection / forceSyncAll requests in flight at once
MaxSends == 6        \* upload requests sent in one behaviour
MaxTimers == 2       \* pending drain timers
MaxBurstItems == 7   \* uploadData calls in one burst
MaxEvents == 3       \* handleFileChange calls in one behaviour
MaxStarts == 2       \* start() calls in one behaviour
MaxStarting == 1     \* start() calls awaiting their glob at once
MaxWatchTicks == 2   \* ticks of the watcher's clock
MaxConfigWrites == 1 \* config writes in one behaviour
MaxRacing == 2       \* start() calls awaiting their glob at once, when they race
MaxArrayLen == 2     \* elements of an array of a generated value tree
MaxFields == 3       \* fields of a generated table constructor
MaxStatements == 3   \* top-level statements of a generated file

(* Program constants *)

BATCH_SIZE == 5
RETRY_LIMIT == 5
BACKOFF_THRESHOLD == 3
BACKOFF_STEP == 5000
BACKOFF_MAX == 30000
DRAIN_DELAY == 1000
UPLOAD_COOLDOWN == 30000

TickMs == BACKOFF_STEP               \* granularity of the queue's clock
WatchTickMs == UPLOAD_COOLDOWN \div 2 \* granularity of the watcher's clock

\* Date.now() is far from 0: the first comparisons against the initial
\* lastUploadAttempt = 0 are beyond every backoff and cooldown.
StartTime == UPLOAD_COOLDOWN
MaxTime == StartTime + MaxTicks * TickMs

Min(a, b) == IF a < b THEN a ELSE b

\* the same sequence, as an explicit tuple
Tuple(seq) == seq \o <<>>

Take(seq, n) == SubSeq(seq, 1, Min(n, Len(seq)))
Drop(seq, n) == SubSeq(seq, Min(n, Len(seq)) + 1, Len(seq))

Paths == {"acct1", "acct2"}
Outcomes == {"ok", "non200", "error"}

---------------------------------------------------------------------------
(* JavaScript values.  A string is kept as the sequence of its segments    *)
(* between '-' characters ("Foo-Bar" is <<"Foo", "Bar">>, "" is <<"">>),   *)
(* which is what String.split('-') returns.  An object is the sequence of  *)
(* its <<key, value>> entries in insertion order.                          *)

JUndef == [t |-> "undefined"]
JNull == [t |-> "null"]
JBool(b) == [t |-> "boolean", b |-> b]
JNum(n) == [t |-> "number", n |-> n]
JStr(segs) == [t |-> "string", s |-> segs]
JArr(elems) == [t |-> "array", a |-> elems]
JObj(entries) == [t |-> "object", e |-> entries]
Str(x) == JStr(<<x>>)
\* a thrown Error, as the value of an operator that models a throwing function
Thrown(msg) == [t |-> "thrown", msg |-> msg]
IsThrown(v) == v.t = "thrown"

\* ToBoolean
Truthy(v) ==
    CASE v.t = "undefined" -> FALSE
      [] v.t = "null" -> FALSE
      [] v.t = "boolean" -> v.b
      [] v.t = "number" -> v.n # 0
      [] v.t = "string" -> v.s # <<"">>
      [] v.t = "NaN" -> FALSE
      [] OTHER -> TRUE

\* a || b
Or(a, b) == IF Truthy(a) THEN a ELSE b

\* reading a property of undefined or null throws a TypeError
CanRead(v) == v.t \notin {"undefined", "null"}

HasKey(entries, k) == \E i \in 1..Len(entries) : entries[i][1] = k
Lookup(entries, k) ==
    IF HasKey(entries, k)
    THEN entries[CHOOSE i \in 1..Len(entries) : entries[i][1] = k][2]
    ELSE JUndef

\* v.name for a v that can be read; only objects carry the data properties
Get(v, name) == IF v.t = "object" THEN Lookup(v.e, <<name>>) ELSE JUndef

\* Object.entries(v): own enumerable properties.  (Those of a string, one per
\* character, are not expressible here; no input below holds a string there.)
Entries(v) ==
    CASE v.t = "object" -> v.e
      [] v.t = "array" -> Tuple([i \in 1..Len(v.a) |-> << <<ToString(i - 1)>>, v.a[i] >>])
      [] OTHER -> <<>>

---------------------------------------------------------------------------
(* Table decoder: FileWatcher.luaAstToJson over the syntax tree that       *)
(* luaparse.parse returns (an external library: the tree is the input).    *)

StringLit(body) == [type |-> "StringLiteral", value |-> JNull, raw |-> [middle |-> body]]
NumLit(n) == [type |-> "NumericLiteral", value |-> JNum(n)]
BoolLit(b) == [type |-> "BooleanLiteral", value |-> JBool(b)]
NilLit == [type |-> "NilLiteral", value |-> JNull]
Neg(arg) == [type |-> "UnaryExpression", operator |-> "-", argument |-> arg]
Ident(name) == [type |-> "Identifier", name |-> name]
KeyField(k, v) == [type |-> "TableKey", key |-> k, value |-> v]
NameField(name, v) == [type |-> "TableKeyString", key |-> Ident(name), value |-> v]
ValueField(v) == [type |-> "TableValue", value |-> v]
Table(fields) == [type |-> "TableConstructorExpression", fields |-> fields]
Call(name) == [type |-> "CallExpression", base |-> Ident(name)]
Assign(name, init) ==
    [type |-> "AssignmentStatement", variables |-> <<Ident(name)>>, init |-> <<init>>]
Chunk(body) == [type |-> "Chunk", body |-> body]

\* the property key a value is converted to by Object.fromEntries
PropertyKey(v) ==
    CASE v.t = "string" -> v.s
      [] v.t = "number" -> <<ToString(v.n)>>
      [] v.t = "boolean" -> IF v.b THEN <<"true">> ELSE <<"false">>
      [] v.t = "null" -> <<"null">>
      [] v.t = "undefined" -> <<"undefined">>
      [] OTHER -> <<"[object]">>

\* obj[k] = v: a key already present keeps its place
Put(entries, k, v) ==
    IF HasKey(entries, k)
    THEN Tuple([i \in 1..Len(entries) |->
                  IF entries[i][1] = k THEN <<k, v>> ELSE entries[i]])
    ELSE Append(entries, <<k, v>>)

\* Object.fromEntries(pairs), pairs a sequence of <<key value, value>>
FromEntries(pairs) ==
    LET R[i \in 0..Len(pairs)] ==
          IF i = 0 THEN <<>>
          ELSE Put(R[i - 1], PropertyKey(pairs[i][1]), pairs[i][2])
    IN JObj(R[Len(pairs)])

InternalTableKey(k, v) ==
    JObj(<< << <<"__internal_table_key">>, JBool(TRUE) >>,
            << <<"key">>, k >>, << <<"value">>, v >> >>)

FirstThrown(seq) == seq[CHOOSE i \in 1..Len(seq) :
                          IsThrown(seq[i]) /\ \A j \in 1..(i - 1) : ~IsThrown(seq[j])]
AnyThrown(seq) == \E i \in 1..Len(seq) : IsThrown(seq[i])

\* -x
Negate(v) ==
    CASE v.t = "number" -> JNum(0 - v.n)
      [] v.t = "boolean" -> JNum(IF v.b THEN -1 ELSE 0)
      [] v.t = "null" -> JNum(0)
      [] OTHER -> [t |-> "NaN"]

RECURSIVE luaAstToJson(_)
luaAstToJson(ast) ==
    CASE ast.type = "StringLiteral" ->
           IF ast.value # JNull THEN ast.value ELSE JStr(ast.raw.middle)
      [] ast.type \in {"NilLiteral", "BooleanLiteral", "NumericLiteral"} -> ast.value
      [] ast.type = "UnaryExpression" /\ ast.operator = "-" ->
           LET x == luaAstToJson(ast.argument) IN IF IsThrown(x) THEN x ELSE Negate(x)
      [] ast.type = "Identifier" -> Str(ast.name)
      [] ast.type \in {"TableKey", "TableKeyString"} ->
           LET k == luaAstToJson(ast.key)
               v == luaAstToJson(ast.value)
           IN IF IsThrown(k) THEN k ELSE IF IsThrown(v) THEN v ELSE InternalTableKey(k, v)
      [] ast.type = "TableValue" -> luaAstToJson(ast.value)
      [] ast.type = "TableConstructorExpression" ->
           LET fs == ast.fields
               rs == Tuple([i \in 1..Len(fs) |-> luaAstToJson(fs[i])])
           IN IF Len(fs) >= 1 /\ fs[1].type \in {"TableKey", "TableKeyString"}
              THEN \* const { key, value } = luaAstToJson(field)
                   LET ps == Tuple([i \in 1..Len(fs) |->
                                IF IsThrown(rs[i]) THEN rs[i]
                                ELSE IF ~CanRead(rs[i]) THEN Thrown("TypeError")
                                ELSE <<Get(rs[i], "key"), Get(rs[i], "value")>>])
                       bad == Tuple([i \in 1..Len(fs) |->
                                 IF IsThrown(rs[i]) THEN rs[i]
                                 ELSE IF ~CanRead(rs[i]) THEN Thrown("TypeError")
                                 ELSE JNull])
                   IN IF AnyThrown(bad) THEN FirstThrown(bad) ELSE FromEntries(ps)
              ELSE \* value.__internal_table_key ? [value.key, value.value] : value
                   LET es == Tuple([i \in 1..Len(fs) |->
                                IF IsThrown(rs[i]) THEN rs[i]
                                ELSE IF ~CanRead(rs[i]) THEN Thrown("TypeError")
                                ELSE IF Truthy(Get(rs[i], "__internal_table_key"))
                                     THEN JArr(<<Get(rs[i], "key"), Get(rs[i], "value")>>)
                                     ELSE rs[i]])
                   IN IF AnyThrown(es) THEN FirstThrown(es) ELSE JArr(es)
      [] OTHER -> Thrown(ast.type)

TABLE_NAME == "ScribeyDB"

\* statement.variables[j] is the identifier ScribeyDB and statement.init[j] is there
Initialised(statement, j) ==
    /\ statement.variables[j].type = "Identifier"
    /\ statement.variables[j].name = TABLE_NAME
    /\ j <= Len(statement.init)

\* an extractScribeyDBFromAST that keeps scanning: the last assignment wins
extractLastScribeyDB(ast) ==
    LET hits == {i \in 1..Len(ast.body) :
                   /\ ast.body[i].type = "AssignmentStatement"
                   /\ \E j \in 1..Len(ast.body[i].variables) : Initialised(ast.body[i], j)}
    IN IF hits = {} THEN JNull
       ELSE LET i == CHOOSE h \in hits : \A g \in hits : h >= g
                st == ast.body[i]
                j == CHOOSE a \in 1..Len(st.variables) :
                       /\ Initialised(st, a)
                       /\ \A b \in (a + 1)..Len(st.variables) : ~Initialised(st, b)
                r == luaAstToJson(st.init[j])
            IN IF IsThrown(r) THEN JNull ELSE r

\* extractScribeyDBFromAST: the first top-level assignment to ScribeyDB,
\* reduced; JNull when there is none or the reduction throws
extractScribeyDBFromAST(ast) ==
    LET hits == {i \in 1..Len(ast.body) :
                   /\ ast.body[i].type = "AssignmentStatement"
                   /\ \E j \in 1..Len(ast.body[i].variables) : Initialised(ast.body[i], j)}
    IN IF hits = {} THEN JNull
       ELSE LET i == CHOOSE h \in hits : \A g \in hits : h <= g
                st == ast.body[i]
                j == CHOOSE a \in 1..Len(st.variables) :
                       /\ Initialised(st, a)
                       /\ \A b \in 1..(a - 1) : ~Initialised(st, b)
                r == luaAstToJson(st.init[j])
            IN IF IsThrown(r) THEN JNull ELSE r

---------------------------------------------------------------------------
(* Domain extractor: FileWatcher.parseScribeyCharacterFromJson and the     *)
(* part of parseLuaData after the decode.                                  *)

DEFAULT_MAX_SKILL == 525

\* one element of charData.professions; `skip` when it has no name
professionOf(prof) ==
    IF ~CanRead(prof) THEN Thrown("TypeError")
    ELSE IF ~Truthy(Get(prof, "name")) THEN [t |-> "skip"]
    ELSE [t |-> "profession",
          name |-> Get(prof, "name"),
          skillLevel |-> Or(Get(prof, "skill_level"), JNum(0)),
          maxSkill |-> Or(Get(prof, "max_skill_level"), JNum(DEFAULT_MAX_SKILL))]

SelectProfessions(seq) ==
    LET R[i \in 0..Len(seq)] ==
          IF i = 0 THEN <<>>
          ELSE IF seq[i].t = "profession" THEN Append(R[i - 1], seq[i]) ELSE R[i - 1]
    IN R[Len(seq)]

\* parseScribeyCharacterFromJson(fullName, charData): the record, or JNull
\* when anything in it throws (its own catch returns null)
parseScribeyCharacterFromJson(fullName, charData) ==
    IF ~CanRead(charData) THEN JNull
    ELSE
    LET profs == Get(charData, "professions")
        each == IF Truthy(profs) /\ profs.t = "array"
                THEN Tuple([i \in 1..Len(profs.a) |-> professionOf(profs.a[i])])
                ELSE <<>>
    IN IF \E i \in 1..Len(each) : IsThrown(each[i]) THEN JNull
       ELSE [t |-> "character",
             name |-> Or(Get(charData, "character_name"), Str(fullName[1])),
             realm |-> Or(Or(Get(charData, "realm_name"),
                             IF Len(fullName) >= 2 THEN Str(fullName[2]) ELSE JUndef),
                          Str("Unknown")),
             class |-> Or(Get(charData, "class"), Str("WARRIOR")),
             professions |-> SelectProfessions(each)]

\* the same loop without its try/catch per entry: the first entry that
\* fails ends it
parseCharactersUntilFailure(characterData) ==
    LET ents == Entries(characterData)
        each == Tuple([i \in 1..Len(ents) |->
                         parseScribeyCharacterFromJson(ents[i][1], ents[i][2])])
        reached(i) == \A j \in 1..i : each[j].t = "character"
        Chars[i \in 0..Len(ents)] ==
          IF i = 0 THEN <<>>
          ELSE IF reached(i)
               THEN Append(Chars[i - 1], <<ents[i][1], each[i]>>)
               ELSE Chars[i - 1]
    IN [characters |-> Chars[Len(ents)],
        ledger |-> Tuple([i \in 1..Len(ents) |->
                            [fullCharacterName |-> ents[i][1],
                             parseSuccess |-> reached(i)]])]

\* the loop over Object.entries(characterData), line 1142-1168:
\* the characters kept and the ledger (parseResults)
parseCharacters(characterData) ==
    LET ents == Entries(characterData)
        each == Tuple([i \in 1..Len(ents) |->
                         parseScribeyCharacterFromJson(ents[i][1], ents[i][2])])
        Chars[i \in 0..Len(ents)] ==
          IF i = 0 THEN <<>>
          ELSE IF each[i].t = "character"
               THEN Append(Chars[i - 1], <<ents[i][1], each[i]>>)
               ELSE Chars[i - 1]
    IN [characters |-> Chars[Len(ents)],
        ledger |-> Tuple([i \in 1..Len(ents) |->
                            [fullCharacterName |-> ents[i][1],
                             parseSuccess |-> each[i].t = "character"]])]

\* the same without the check of line 1111: a missing character_data is an
\* empty one
extractAddonDataUnchecked(scribeyDB) ==
    IF ~Truthy(scribeyDB) THEN JNull
    ELSE [t |-> "addonData",
          characters |->
            parseCharacters(Or(Get(scribeyDB, "character_data"), JObj(<<>>))).characters]

\* parseLuaData from line 1106 on, given the decoded ScribeyDB (or JNull):
\* JNull, or the AddonData.  (Its auction, crafted-card, settings and version
\* fields are defaulted copies that cannot throw and that nothing reads.)
extractAddonData(scribeyDB) ==
    IF ~Truthy(scribeyDB) THEN JNull
    ELSE IF ~Truthy(Get(scribeyDB, "character_data")) THEN JNull
    ELSE [t |-> "addonData",
          characters |-> parseCharacters(Get(scribeyDB, "character_data")).characters]

\* the parseResults ledger parseLuaData builds on the way (written to the
\* character-parse-results debug file only)
parseResults(scribeyDB) ==
    IF ~Truthy(scribeyDB) THEN <<>>
    ELSE IF ~Truthy(Get(scribeyDB, "character_data")) THEN <<>>
    ELSE parseCharacters(Get(scribeyDB, "character_data")).ledger

\* parseLuaData(content): luaparse.parse throws on text that is no Lua
\* (parsed = FALSE); every throw ends in the catch, which returns null
parseLuaData(file) ==
    IF ~file.parsed THEN JNull
    ELSE extractAddonData(extractScribeyDBFromAST(file.ast))

---------------------------------------------------------------------------
(* Inputs: Lua files as luaparse returns them *)

LuaFile(body) == [parsed |-> TRUE, ast |-> Chunk(body)]
NotLua == [parsed |-> FALSE]

\* { name = "Tailoring", skill_level = 300, max_skill_level = 300 }
ProfessionTable(name, skill, max) ==
    Table(<<NameField("name", StringLit(<<name>>)),
            NameField("skill_level", NumLit(skill)),
            NameField("max_skill_level", NumLit(max))>>)

\* values a character_data entry is given
CharSamples ==
    << \* 1: Scenario A
       Table(<<NameField("character_name", StringLit(<<"Foo">>)),
               NameField("realm_name", StringLit(<<"Bar">>)),
               NameField("class", StringLit(<<"MAGE">>)),
               NameField("professions",
                         Table(<<ValueField(ProfessionTable("Tailoring", 300, 300))>>))>>),
       \* 2: no explicit fields; one profession without a name, one without levels
       Table(<<NameField("professions",
                         Table(<<ValueField(Table(<<NameField("skill_level", NumLit(1))>>)),
                                 ValueField(Table(<<NameField("name",
                                                              StringLit(<<"Mining">>))>>))>>))>>),
       \* 3: {}
       Table(<<>>),
       \* 4, 5, 6: not a table
       NumLit(5),
       StringLit(<<"oops">>),
       BoolLit(TRUE),
       \* 7: nil
       NilLit,
       \* 8: a profession whose levels are both 0
       Table(<<NameField("class", StringLit(<<"ROGUE">>)),
               NameField("professions",
                         Table(<<ValueField(ProfessionTable("Tailoring", 0, 0))>>))>>) >>

CharKeys == << <<"Foo", "Bar">>, <<"Baz", "Qux">>, <<"Solo">> >>

NonMapSamples == {4, 5, 6}

\* ScribeyDB = { character_data = { [key] = sample, ... }, settings = {} };
\* pick[i] = 0 leaves key i out; withData = FALSE leaves character_data out
SampleFile(pick, withData) ==
    LET Fields[i \in 0..Len(CharKeys)] ==
          IF i = 0 THEN <<>>
          ELSE IF pick[i] = 0 THEN Fields[i - 1]
               ELSE Append(Fields[i - 1],
                           KeyField(StringLit(CharKeys[i]), CharSamples[pick[i]]))
    IN LuaFile(<<Assign(TABLE_NAME,
                 Table((IF withData
                        THEN <<NameField("character_data", Table(Fields[Len(CharKeys)]))>>
                        ELSE <<>>)
                       \o <<NameField("settings", Table(<<>>))>>))>>)

---------------------------------------------------------------------------
(* Inputs: value trees and the table literal that is written for one.      *)
(* A tree is kept as the JavaScript value it is expected to decode to:     *)
(* nil is null, an Array is an array, a Map is an object.                   *)

Leaves ==
    {JNull, JBool(TRUE), JNum(0), JNum(-3), Str("x"), JStr(<<"Foo", "Bar">>)}

SeqsOver(set, n) == UNION {[1..k -> set] : k \in 0..n}

ArraysOver(set) == {JArr(a) : a \in SeqsOver(set, MaxArrayLen)}

\* the maps over the keys a and b, in that order
MapsOver(set) ==
    {JObj(<<>>)}
      \cup {JObj(<< << <<k>>, v >> >>) : k \in {"a", "b"}, v \in set}
      \cup {JObj(<< << <<"a">>, v >>, << <<"b">>, w >> >>) : v \in set, w \in set}

FlatTrees == Leaves \cup ArraysOver(Leaves) \cup MapsOver(Leaves)

Trees ==
    FlatTrees
      \cup {JArr(<<x>>) : x \in FlatTrees}
      \cup {JObj(<< << <<"a">>, x >> >>) : x \in FlatTrees}

\* the syntax tree luaparse returns for the table literal that writes V:
\* { v1, v2 } for an Array, { ["a"] = v1, ["b"] = v2 } for a Map
RECURSIVE Encode(_)
Encode(V) ==
    CASE V.t = "null" -> NilLit
      [] V.t = "boolean" -> BoolLit(V.b)
      [] V.t = "number" -> IF V.n < 0 THEN Neg(NumLit(0 - V.n)) ELSE NumLit(V.n)
      [] V.t = "string" -> StringLit(V.s)
      [] V.t = "array" ->
           Table(Tuple([i \in 1..Len(V.a) |-> ValueField(Encode(V.a[i]))]))
      [] V.t = "object" ->
           Table(Tuple([i \in 1..Len(V.e) |->
                          KeyField(StringLit(V.e[i][1]), Encode(V.e[i][2]))]))

---------------------------------------------------------------------------
(* Inputs: table constructors, by their fields *)

\* the fields a table constructor is written with
FieldSamples ==
    << ValueField(NumLit(1)),                                  \* 1
       ValueField(StringLit(<<"x">>)),                         \* "x"
       ValueField(NilLit),                                     \* nil
       KeyField(StringLit(<<"a">>), NumLit(1)),                \* ["a"] = 1
       NameField("b", NumLit(2)),                              \* b = 2
       KeyField(NumLit(7), BoolLit(TRUE)),                     \* [7] = true
       NameField("d", NilLit),                                 \* d = nil
       ValueField(Table(<<>>)),                                \* {}
       ValueField(Call("f")),                                  \* f()
       KeyField(StringLit(<<"c">>), Table(<<ValueField(Call("f"))>>)),  \* ["c"] = { f() }
       ValueField([type |-> "UnaryExpression", operator |-> "not",
                   argument |-> BoolLit(TRUE)]) >>             \* not true

\* the constructor whose fields are the samples pick names, in that order
TableOf(pick) == Table(Tuple([i \in 1..Len(pick) |-> FieldSamples[pick[i]]]))

---------------------------------------------------------------------------
(* Inputs: files, by their top-level statements *)

StatementSamples ==
    << Assign(TABLE_NAME, Table(<<NameField("a", NumLit(1))>>)),   \* ScribeyDB = { a = 1 }
       Assign(TABLE_NAME, Table(<<NameField("b", NumLit(2))>>)),   \* ScribeyDB = { b = 2 }
       Assign("Other", Table(<<NameField("c", NumLit(3))>>)),      \* Other = { c = 3 }
       [type |-> "AssignmentStatement",                            \* x, ScribeyDB = 1
        variables |-> <<Ident("x"), Ident(TABLE_NAME)>>, init |-> <<NumLit(1)>>],
       Assign(TABLE_NAME, Call("f")),                              \* ScribeyDB = f()
       [type |-> "LocalStatement",                                 \* local ScribeyDB = { a = 1 }
        variables |-> <<Ident(TABLE_NAME)>>,
        init |-> <<Table(<<NameField("a", NumLit(1))>>)>>] >>

\* the tree of the file whose statements are the samples pick names
ChunkOf(pick) == Chunk(Tuple([i \in 1..Len(pick) |-> StatementSamples[pick[i]]]))

---------------------------------------------------------------------------
(* The program state as one record, so that a handler is a function        *)
(* from state to state and handlers compose as the code's calls do.        *)

S == [now |-> now, uploadQueue |-> uploadQueue, isUploading |-> isUploading,
      lastUploadAttempt |-> lastUploadAttempt,
      consecutiveFailures |-> consecutiveFailures,
      cycles |-> cycles, timers |-> timers, requests |-> requests,
      isActive |-> isActive, watchedFiles |-> watchedFiles, lastUpdate |-> lastUpdate,
      lastError |-> lastError, lastFileContents |-> lastFileContents,
      fileUploadAttempt |-> fileUploadAttempt, watcher |-> watcher, leaked |-> leaked,
      starting |-> starting, autoUpload |-> autoUpload, wowPath |-> wowPath,
      characters |-> characters, storedDeviceId |-> storedDeviceId,
      deviceId |-> deviceId, machineIdPending |-> machineIdPending,
      ex |-> ex, hist |-> hist]

Set(s) ==
    /\ now' = s.now
    /\ uploadQueue' = s.uploadQueue
    /\ isUploading' = s.isUploading
    /\ lastUploadAttempt' = s.lastUploadAttempt
    /\ consecutiveFailures' = s.consecutiveFailures
    /\ cycles' = s.cycles
    /\ timers' = s.timers
    /\ requests' = s.requests
    /\ isActive' = s.isActive
    /\ watchedFiles' = s.watchedFiles
    /\ lastUpdate' = s.lastUpdate
    /\ lastError' = s.lastError
    /\ lastFileContents' = s.lastFileContents
    /\ fileUploadAttempt' = s.fileUploadAttempt
    /\ watcher' = s.watcher
    /\ leaked' = s.leaked
    /\ starting' = s.starting
    /\ autoUpload' = s.autoUpload
    /\ wowPath' = s.wowPath
    /\ characters' = s.characters
    /\ storedDeviceId' = s.storedDeviceId
    /\ deviceId' = s.deviceId
    /\ machineIdPending' = s.machineIdPending
    /\ ex' = s.ex
    /\ hist' = s.hist

NoEvent == [path |-> "", read |-> 0, cached |-> 0, 
            decoded |-> FALSE, enqueued |-> FALSE]

InitHist ==
    [nextId |-> 1,
     attempts |-> <<>>,      \* attempts[id]: upload requests sent for item id
     fails |-> <<>>,         \* fails[id]: failed deliveries of item id
     dropped |-> {},         \* ids given up by the catch of processUploadQueue
     lastSendAt |-> -1,      \* time of the last upload request
     events |-> 0,           \* handleFileChange calls
     starts |-> 0,           \* start() calls
     ev |-> NoEvent,         \* the last handleFileChange call
     lastEnq |-> [p \in Paths |-> -1],   \* time of the last enqueue for the path
     sessEnq |-> [p \in Paths |-> -1],   \* the same, since the last stop()
     gaps |-> {},            \* times between two successive enqueues for one path
     sessGaps |-> {},        \* the same, with no stop() between the two
     writes |-> 0,           \* config writes (setConfig, reset) so far
     cleared |-> FALSE,      \* clearQueue() was called and uploadData() not since
     ids |-> {},             \* the values getDeviceId() has returned
     wire |-> {}]            \* the requests issued: their kind and X-Device-ID header

---------------------------------------------------------------------------
(* ConfigManager *)

MACHINE_ID == "machine-id"          \* what machineId() answers
UNKNOWN_DEVICE == "unknown-device"
\* what the store of an earlier run holds as deviceId
StoredIds == {"", MACHINE_ID}

\* getDeviceId(): this._deviceId || this.store.get('deviceId') || 'unknown-device'
getDeviceId(s) ==
    IF s.deviceId # "" THEN s.deviceId
    ELSE IF s.storedDeviceId # "" THEN s.storedDeviceId
    ELSE UNKNOWN_DEVICE

\* a getDeviceId() call, remembered
readDeviceId(s) == [s EXCEPT !.hist.ids = @ \cup {getDeviceId(s)}]

\* initializeDeviceId after its await: machineId() answered, or threw
machineIdSettled(s, answered) ==
    IF answered
    THEN [s EXCEPT !.deviceId = MACHINE_ID,
                   !.storedDeviceId = IF @ = "" THEN MACHINE_ID ELSE @,
                   !.machineIdPending = FALSE]
    ELSE [s EXCEPT !.deviceId = UNKNOWN_DEVICE,
                   !.machineIdPending = FALSE]

\* setConfig(config): store.set of the keys the partial config has
setConfig(s, config) ==
    [s EXCEPT !.characters = IF "characters" \in DOMAIN config
                             THEN config.characters ELSE @,
              !.storedDeviceId = IF "deviceId" \in DOMAIN config
                                 THEN config.deviceId ELSE @]

\* reset(): store.clear() and the defaults, which hold no deviceId
reset(s) ==
    [s EXCEPT !.wowPath = 0, !.autoUpload = TRUE, !.characters = <<>>,
              !.storedDeviceId = ""]

\* a CharacterConfig of the store (lastSync 0: not set)
CharacterConfig(name, realm) ==
    [name |-> name, realm |-> realm, enabled |-> TRUE, lastSync |-> 0]

\* updateCharacterSync(name, realm, timestamp): the first character of that
\* name and realm, if there is one
updateCharacterSync(s, name, realm, timestamp) ==
    LET cs == s.characters
        hits == {i \in 1..Len(cs) : cs[i].name = name /\ cs[i].realm = realm}
    IN IF hits = {} THEN s
       ELSE LET i == CHOOSE h \in hits : \A g \in hits : h <= g
            IN [s EXCEPT !.characters[i].lastSync = timestamp]

\* the device:register and device:checkRegistration handlers of main.ts:
\* the id goes into the body of a request made with axios itself, which has
\* no interceptor; its answer touches no state
postPlain(s, kind) ==
    [readDeviceId(s) EXCEPT !.hist.wire = @ \cup {[kind |-> kind, header |-> ""]}]

---------------------------------------------------------------------------
(* DataUploader *)

\* the request interceptor of httpClient: X-Device-ID = getDeviceId()
interceptRequest(s, kind) ==
    LET s1 == readDeviceId(s)
    IN [s1 EXCEPT !.hist.wire = @ \cup {[kind |-> kind, header |-> getDeviceId(s)]}]

\* uploadSingleItem, line 205-208: the sync timestamps of the characters of
\* a delivered item
syncCharacters(s, item) ==
    LET keys == item.data.characters
        Sync[i \in 0..Len(keys)] ==
          IF i = 0 THEN s
          ELSE LET fullName == keys[i][1]
                   realm == IF Len(fullName) >= 2 /\ fullName[2] # ""
                            THEN fullName[2] ELSE "Unknown"
               IN updateCharacterSync(Sync[i - 1], fullName[1], realm, item.timestamp)
    IN Sync[Len(keys)]

backoffTime(f) == Min(f * BACKOFF_STEP, BACKOFF_MAX)

\* a processUploadQueue without lines 138-146
neverBackingOff(s) == FALSE

\* processUploadQueue, line 138-146: the cycle is held back
backingOff(s) ==
    /\ s.consecutiveFailures >= BACKOFF_THRESHOLD
    /\ s.now - s.lastUploadAttempt < backoffTime(s.consecutiveFailures)

\* a finally that clears the flag and schedules nothing
drainFinallyUnarmed(s) == [s EXCEPT !.isUploading = FALSE]

\* the finally block of processUploadQueue
drainFinally(s) ==
    [s EXCEPT !.isUploading = FALSE,
              !.timers = IF Len(s.uploadQueue) > 0
                         THEN Append(s.timers, s.now + DRAIN_DELAY)
                         ELSE s.timers]

\* uploadSingleItem up to its await: the request for `item` leaves
sendItem(s, item) ==
    LET s1 == interceptRequest(readDeviceId(s), "upload")
    IN [s1 EXCEPT !.hist.attempts[item.id] = @ + 1,
                  !.hist.lastSendAt = s.now]

\* a batch that takes the whole queue: uploadQueue.splice(0)
spliceAll(q) == [batch |-> q, rest |-> <<>>]

\* a batch that is copied, not taken: uploadQueue.slice(0, batchSize)
sliceBatch(q) == [batch |-> Take(q, BATCH_SIZE), rest |-> q]

\* the batch: uploadQueue.splice(0, batchSize)
spliceBatch(q) == [batch |-> Take(q, BATCH_SIZE), rest |-> Drop(q, BATCH_SIZE)]

\* the guard without its busy flag
drainGuardUnflagged(s) == Len(s.uploadQueue) > 0

\* the guard of processUploadQueue, line 130
drainGuard(s) == ~s.isUploading /\ Len(s.uploadQueue) > 0

\* a processUploadQueue whose backoff test comes after the splice: the
\* batch of a held-back cycle is lost
processUploadQueueConsuming(s) ==
    IF ~drainGuard(s) THEN s
    ELSE LET s1 == [s EXCEPT !.isUploading = TRUE]
             sp == spliceBatch(s1.uploadQueue)
             s2 == [s1 EXCEPT !.uploadQueue = sp.rest]
         IN IF backingOff(s1) THEN drainFinally(s2)
            ELSE sendItem([s2 EXCEPT !.cycles = Append(s1.cycles,
                                                       [batch |-> sp.batch, i |-> 1,
                                                        caller |-> ""])],
                          sp.batch[1])

processUploadQueue(s) ==
    IF ~drainGuard(s) THEN s
    ELSE LET s1 == [s EXCEPT !.isUploading = TRUE] IN
         IF backingOff(s1) THEN drainFinally(s1)
         ELSE LET sp == spliceBatch(s1.uploadQueue)
                  s2 == [s1 EXCEPT
                           !.uploadQueue = sp.rest,
                           !.cycles = Append(s1.cycles, [batch |-> sp.batch, i |-> 1,
                                                         caller |-> ""])]
              IN sendItem(s2, sp.batch[1])

\* uploadData(addonData, filePath)
uploadData(s, data, filePath) ==
    LET item == [id |-> s.hist.nextId, data |-> data, filePath |-> filePath,
                 timestamp |-> s.now]
        s1 == [s EXCEPT !.uploadQueue = Append(s.uploadQueue, item),
                        !.hist.nextId = @ + 1,
                        !.hist.cleared = FALSE,
                        !.hist.attempts = Append(@, 0),
                        !.hist.fails = Append(@, 0)]
    IN IF ~s1.isUploading THEN processUploadQueue(s1) ELSE s1

\* a retryFailedUploads that leaves the failure counter as it is
retryFailedUploadsKeeping(s) ==
    IF Len(s.uploadQueue) > 0 /\ ~s.isUploading THEN processUploadQueue(s) ELSE s

\* retryFailedUploads()
retryFailedUploads(s) ==
    LET s1 == [s EXCEPT !.consecutiveFailures = 0]
    IN IF Len(s1.uploadQueue) > 0 /\ ~s1.isUploading THEN processUploadQueue(s1) ELSE s1

\* clearQueue()
clearQueue(s) == [s EXCEPT !.uploadQueue = <<>>, !.hist.cleared = TRUE]

\* the response interceptor of the shared httpClient
\* testConnection() up to the await of its request
testConnection(s) ==
    [interceptRequest(s, "status") EXCEPT !.requests = @ + 1]

\* a forceSyncAll that also starts a drain cycle
forceSyncAllDraining(s) ==
    processUploadQueue([interceptRequest(readDeviceId(s), "sync")
                          EXCEPT !.requests = @ + 1])

\* forceSyncAll() up to the await of its request
forceSyncAll(s) ==
    [interceptRequest(readDeviceId(s), "sync") EXCEPT !.requests = @ + 1]

interceptResponse(s, fulfilled) ==
    [s EXCEPT !.consecutiveFailures = IF fulfilled THEN 0 ELSE @ + 1]

\* the catch of the batch loop, line 155-161
requeueOrDrop(s, item) ==
    IF s.consecutiveFailures < RETRY_LIMIT
    THEN [s EXCEPT !.uploadQueue = <<item>> \o @,
                   !.hist.fails[item.id] = @ + 1]
    ELSE [s EXCEPT !.hist.fails[item.id] = @ + 1,
                   !.hist.dropped = @ \cup {item.id}]

\* an uploadSingleItem that records the sync before it looks at the answer
settleItemSyncing(s, item, outcome) ==
    LET s1 == syncCharacters(interceptResponse(s, outcome # "error"), item) IN
    IF outcome = "ok" THEN s1 ELSE requeueOrDrop(s1, item)

\* uploadSingleItem after its await, and the catch around it
settleItem(s, item, outcome) ==
    LET s1 == interceptResponse(s, outcome # "error") IN
    IF outcome = "ok"
    THEN syncCharacters(s1, item)
    ELSE requeueOrDrop(s1, item)

RemoveAt(seq, k) == SubSeq(seq, 1, k - 1) \o SubSeq(seq, k + 1, Len(seq))

\* handleFileChange after its await of uploadData, line 1044-1068: the
\* promise is fulfilled, or rejected and the catch records the error
uploadSettled(s, caller, rejected) ==
    IF caller # "" /\ rejected THEN [s EXCEPT !.lastError = "Upload failed"] ELSE s

\* a batch loop without the catch of line 155: a failed delivery leaves the
\* loop, the finally runs and the promise of the call is rejected
resumeCycleThrowing(s, k, outcome) ==
    LET cyc == s.cycles[k]
        item == cyc.batch[cyc.i]
    IN IF outcome = "ok"
       THEN LET s1 == settleItem(s, item, outcome)
            IN IF cyc.i < Len(cyc.batch)
               THEN sendItem([s1 EXCEPT !.cycles[k].i = @ + 1], cyc.batch[cyc.i + 1])
               ELSE uploadSettled(drainFinally([s1 EXCEPT !.lastUploadAttempt = s1.now,
                                                          !.cycles = RemoveAt(@, k)]),
                                  cyc.caller, FALSE)
       ELSE LET s1 == [interceptResponse(s, outcome # "error")
                         EXCEPT !.hist.fails[item.id] = @ + 1,
                                !.hist.dropped = @ \cup {item.id},
                                !.cycles = RemoveAt(@, k)]
            IN uploadSettled(drainFinally(s1), cyc.caller, TRUE)

\* the batch loop of cycle k resumes with the outcome of its awaited upload;
\* at its end the call returns and its promise is fulfilled
resumeCycle(s, k, outcome) ==
    LET cyc == s.cycles[k]
        s1 == settleItem(s, cyc.batch[cyc.i], outcome)
    IN IF cyc.i < Len(cyc.batch)
       THEN sendItem([s1 EXCEPT !.cycles[k].i = @ + 1], cyc.batch[cyc.i + 1])
       ELSE uploadSettled(drainFinally([s1 EXCEPT !.lastUploadAttempt = s1.now,
                                                  !.cycles = RemoveAt(@, k)]),
                          cyc.caller, FALSE)

---------------------------------------------------------------------------
(* FileWatcher: handleFileChange, stop, start *)

\* the contents a watched file is found with: an index of WatchFiles
WatchFiles ==
    << SampleFile(<<1, 0, 0>>, TRUE),
       SampleFile(<<1, 2, 0>>, TRUE),
       SampleFile(<<0, 0, 0>>, FALSE),
       NotLua >>
Contents == 1..Len(WatchFiles)
Missing == -2        \* fs.existsSync(filePath) is false
Unreadable == -1     \* fs.readFileSync throws
Reads == {Missing, Unreadable} \cup Contents

\* install roots the config may point to: validateWowPath's verdict, whether
\* _classic_/WTF exists, and what the glob finds
Roots ==
    << [valid |-> FALSE, wtf |-> FALSE, files |-> <<>>],
       [valid |-> TRUE, wtf |-> FALSE, files |-> <<>>],
       [valid |-> TRUE, wtf |-> TRUE, files |-> <<>>],
       [valid |-> TRUE, wtf |-> TRUE, files |-> <<"acct1", "acct2">>] >>
GoodRoot == Len(Roots)

\* what parseLuaData makes of each content
Parsed == Tuple([c \in Contents |-> parseLuaData(WatchFiles[c])])

\* a handleFileChange that compares against nothing
neverSameContent(content, lastContent) == FALSE

\* content === lastContent, line 974
sameContent(content, lastContent) == content = lastContent

\* a handleFileChange without the cooldown
neverInCooldown(s, filePath) == FALSE

\* timeSinceLastUpload < UPLOAD_COOLDOWN, line 982-986
inCooldown(s, filePath) == s.now - s.fileUploadAttempt[filePath] < UPLOAD_COOLDOWN

\* a handleFileChange that keeps no record of what it has read
forgetContent(s, filePath, content) == s

\* line 978-979: the content is cached and lastUpdate is set
rememberContent(s, filePath, content) ==
    [s EXCEPT !.lastFileContents[filePath] = content, !.lastUpdate = s.now]

handleFileChange(s, filePath, rd) ==
    LET s0 == [s EXCEPT !.hist.events = @ + 1,
                        !.hist.ev = [path |-> filePath, read |-> rd,
                                     cached |-> s.lastFileContents[filePath],
                                     
                                     decoded |-> FALSE, enqueued |-> FALSE]]
    IN
    IF rd = Missing THEN s0
    ELSE IF rd = Unreadable THEN [s0 EXCEPT !.lastError = "read failed"]
    ELSE IF sameContent(rd, s0.lastFileContents[filePath]) THEN s0
    ELSE
    LET s1 == rememberContent(s0, filePath, rd) IN
    IF inCooldown(s1, filePath) THEN s1
    ELSE
    LET addonData == Parsed[rd]
        s2 == [s1 EXCEPT !.hist.ev.decoded = TRUE]
    IN
    IF addonData.t = "null" THEN s2
    ELSE IF ~s2.autoUpload THEN s2
    ELSE LET \* line 1044: this call awaits the cycle that uploadData has started
             s3 == [uploadData([s2 EXCEPT !.fileUploadAttempt[filePath] = s2.now],
                               addonData, filePath)
                      EXCEPT !.cycles = IF Len(@) > Len(s2.cycles)
                                        THEN [@ EXCEPT ![Len(@)].caller = filePath]
                                        ELSE @]
             pushed == s3.hist.nextId > s2.hist.nextId
         IN IF ~pushed THEN s3
            ELSE [s3 EXCEPT
                    !.hist.ev.enqueued = TRUE,
                    !.hist.gaps = IF s3.hist.lastEnq[filePath] < 0 THEN @
                                  ELSE @ \cup {s3.now - s3.hist.lastEnq[filePath]},
                    !.hist.sessGaps = IF s3.hist.sessEnq[filePath] < 0 THEN @
                                      ELSE @ \cup {s3.now - s3.hist.sessEnq[filePath]},
                    !.hist.lastEnq[filePath] = s3.now,
                    !.hist.sessEnq[filePath] = s3.now]

\* a stop that only pauses: the watch is closed, the per-path state is kept
pause(s) ==
    [s EXCEPT !.watcher = {},
              !.isActive = FALSE,
              !.watchedFiles = <<>>,
              !.hist.sessEnq = [p \in Paths |-> -1]]

\* stop()
stop(s) ==
    [s EXCEPT !.watcher = {},
              !.isActive = FALSE,
              !.watchedFiles = <<>>,
              !.lastFileContents = [p \in Paths |-> 0],
              !.fileUploadAttempt = [p \in Paths |-> 0],
              !.hist.sessEnq = [p \in Paths |-> -1]]

\* start() up to its await of the glob; an error thrown before that leaves
\* the call (the IPC handler reports it)
startBegin(s) ==
    LET s0 == IF s.isActive THEN stop(s) ELSE s IN
    IF s0.wowPath = 0 THEN s0
    ELSE IF ~Roots[s0.wowPath].valid THEN s0
    ELSE IF ~Roots[s0.wowPath].wtf THEN [s0 EXCEPT !.lastError = "WTF directory not found"]
    ELSE [s0 EXCEPT !.starting = Append(@, s0.wowPath)]

\* start() from the glob's answer on: reads[i] is what the initial read of
\* luaFiles[i] finds
startResume(s, k, reads) ==
    LET luaFiles == Roots[s.starting[k]].files
        s0 == [s EXCEPT !.starting = RemoveAt(@, k)]
    IN
    IF Len(luaFiles) = 0 THEN [s0 EXCEPT !.lastError = "No Scribey.lua files found"]
    ELSE
    LET s1 == [s0 EXCEPT !.leaked = @ \cup s0.watcher,
                         !.watcher = {luaFiles[i] : i \in 1..Len(luaFiles)},
                         !.watchedFiles = luaFiles,
                         !.isActive = TRUE,
                         !.lastError = "none"]
        Scan[i \in 0..Len(luaFiles)] ==
          IF i = 0 THEN s1
          ELSE IF reads[i] = Missing THEN Scan[i - 1]
               ELSE handleFileChange(Scan[i - 1], luaFiles[i], reads[i])
    IN Scan[Len(luaFiles)]

---------------------------------------------------------------------------
(* Initial states *)

NoEx == [pick |-> <<0, 0, 0>>, withData |-> FALSE, tree |-> JNull, done |-> FALSE,
         out |-> JNull, ledger |-> <<>>]

InitProgram ==
    /\ now = StartTime
    /\ uploadQueue = <<>>
    /\ isUploading = FALSE
    /\ lastUploadAttempt = 0
    /\ consecutiveFailures = 0
    /\ cycles = <<>>
    /\ timers = <<>>
    /\ requests = 0
    /\ isActive = FALSE
    /\ watchedFiles = <<>>
    /\ lastUpdate = 0
    /\ lastError = "none"
    /\ lastFileContents = [p \in Paths |-> 0]
    /\ fileUploadAttempt = [p \in Paths |-> 0]
    /\ watcher = {}
    /\ leaked = {}
    /\ starting = <<>>
    /\ autoUpload = TRUE
    /\ wowPath = GoodRoot
    /\ characters = <<>>
    /\ hist = InitHist

\* the device identity long after the constructor: machineId() has answered
\* and the store holds its answer
InitIdentity ==
    /\ storedDeviceId = MACHINE_ID
    /\ deviceId = MACHINE_ID
    /\ machineIdPending = FALSE

\* the device identity right after the constructor: initializeDeviceId is
\* awaiting machineId(); the store holds what earlier runs left in it
InitIdentityFresh ==
    /\ storedDeviceId \in StoredIds
    /\ deviceId = ""
    /\ machineIdPending = TRUE

Init == InitProgram /\ InitIdentity /\ ex = NoEx

InitExtract ==
    /\ InitProgram
    /\ InitIdentity
    /\ \E pick \in [1..Len(CharKeys) -> 0..Len(CharSamples)], withData \in BOOLEAN :
          ex = [NoEx EXCEPT !.pick = pick, !.withData = withData]

\* a first run: the store holds no id, or the one of an earlier run, and
\* machineId() has not answered yet
InitConfig == InitProgram /\ InitIdentityFresh /\ ex = NoEx

\* the decoder is handed the literal of one value tree
InitDecode ==
    /\ InitProgram
    /\ InitIdentity
    /\ \E V \in Trees : ex = [NoEx EXCEPT !.tree = V]

\* the extraction entry point is handed one file
InitChunks ==
    /\ InitProgram
    /\ InitIdentity
    /\ \E pick \in SeqsOver(1..Len(StatementSamples), MaxStatements) :
          ex = [NoEx EXCEPT !.pick = pick]

\* the decoder is handed one table constructor
InitTables ==
    /\ InitProgram
    /\ InitIdentity
    /\ \E pick \in SeqsOver(1..Len(FieldSamples), MaxFields) :
          ex = [NoEx EXCEPT !.pick = pick]

---------------------------------------------------------------------------
(* Actions *)

RECURSIVE SumSeq(_)
SumSeq(seq) == IF seq = <<>> THEN 0 ELSE Head(seq) + SumSeq(Tail(seq))

\* the environment stays within the bounds of the model
CanSend == SumSeq(hist.attempts) < MaxSends
CanArm == Len(timers) < MaxTimers

\* what uploadData is handed when it is called directly
DirectData == parseLuaData(SampleFile(<<1, 1, 0>>, TRUE))
DirectPath == "acct1"

Tick ==
    /\ now + TickMs <= MaxTime
    /\ Set([S EXCEPT !.now = @ + TickMs])

UploadData ==
    /\ hist.nextId <= MaxItems
    /\ CanSend /\ CanArm
    /\ Set(uploadData(S, DirectData, DirectPath))

\* the same call in a burst: more of them, while the clock stands still
BurstUploadData ==
    /\ hist.nextId <= MaxBurstItems
    /\ CanSend /\ CanArm
    /\ Set(uploadData(S, DirectData, DirectPath))

RetryFailedUploads ==
    /\ CanSend /\ CanArm
    /\ Set(retryFailedUploads(S))

ClearQueue ==
    /\ Len(uploadQueue) > 0
    /\ Set(clearQueue(S))

\* a pending drain timer fires
TimerFire ==
    /\ Len(timers) > 0
    /\ timers[1] <= now
    /\ CanSend
    /\ Set(processUploadQueue([S EXCEPT !.timers = Tail(@)]))

\* the response (or error, or timeout) of the upload awaited by cycle k arrives
UploadDone ==
    /\ CanSend /\ CanArm
    /\ \E k \in 1..Len(cycles), o \in Outcomes :
          /\ o = "error" => consecutiveFailures < MaxFailures
          /\ Set(resumeCycle(S, k, o))

\* the same with a server that is up: the awaited upload is answered with 200
Delivered ==
    /\ CanSend /\ CanArm
    /\ \E k \in 1..Len(cycles) : Set(resumeCycle(S, k, "ok"))

\* forceSyncAll() up to the await of its request
RequestStart ==
    /\ requests < MaxRequests
    /\ Set(forceSyncAll(S))

TestConnection ==
    /\ requests < MaxRequests
    /\ Set(testConnection(S))

RegisterDevice == Set(postPlain(S, "register"))

CheckRegistration == Set(postPlain(S, "check"))

\* machineId() answers, or throws
MachineIdSettled ==
    /\ machineIdPending
    /\ \E answered \in BOOLEAN : Set(machineIdSettled(S, answered))

\* config:set with a device id
SetDeviceId ==
    /\ hist.writes < MaxConfigWrites
    /\ Set(setConfig([S EXCEPT !.hist.writes = @ + 1], [deviceId |-> "other-id"]))

Reset ==
    /\ hist.writes < MaxConfigWrites
    /\ Set(reset([S EXCEPT !.hist.writes = @ + 1]))

\* their request settles: only the interceptor touches the uploader
RequestDone ==
    /\ requests > 0
    /\ \E ok \in BOOLEAN :
          /\ ~ok => consecutiveFailures < MaxFailures
          /\ Set(interceptResponse([S EXCEPT !.requests = @ - 1], ok))

\* the watcher's clock: steps of half a cooldown
CoarseTick ==
    /\ now + WatchTickMs <= StartTime + MaxWatchTicks * WatchTickMs
    /\ Set([S EXCEPT !.now = @ + WatchTickMs])

\* a chokidar add/change event for a watched path
FileEvent ==
    /\ hist.events < MaxEvents
    /\ hist.nextId <= MaxItems
    /\ CanSend /\ CanArm
    /\ \E p \in watcher \cup leaked, rd \in Reads : Set(handleFileChange(S, p, rd))

StartBegin ==
    /\ Len(starting) < MaxStarting
    /\ hist.starts < MaxStarts
    /\ Set(startBegin([S EXCEPT !.hist.starts = @ + 1]))

\* start() calls that overlap: a second watcher:start arrives while the
\* glob of the first is awaited
StartRacing ==
    /\ Len(starting) < MaxRacing
    /\ hist.starts < MaxStarts
    /\ Set(startBegin([S EXCEPT !.hist.starts = @ + 1]))

\* config:setWowPath: the empty path (0) or one of the roots
SetWowPath ==
    \E r \in 0..Len(Roots) : r # wowPath /\ Set([S EXCEPT !.wowPath = r])

StartResume ==
    /\ hist.nextId <= MaxItems
    /\ CanSend /\ CanArm
    /\ \E k \in 1..Len(starting) :
          \E reads \in [1..Len(Roots[starting[k]].files) -> Reads] :
             Set(startResume(S, k, reads))

Stop == Set(stop(S))

\* the character lists a config:set request writes
ConfigLists ==
    { <<CharacterConfig("Foo", "Bar")>>,
      <<CharacterConfig("Foo", "Bar"), CharacterConfig("Baz", "Qux")>> }

\* config:set with a list of characters
SetCharacters ==
    /\ hist.writes < MaxConfigWrites
    /\ \E cs \in ConfigLists :
          Set(setConfig([S EXCEPT !.hist.writes = @ + 1], [characters |-> cs]))

SetAutoUpload == \E b \in BOOLEAN : b # autoUpload /\ Set([S EXCEPT !.autoUpload = b])

\* parseLuaData on one input
Extract ==
    /\ ~ex.done
    /\ LET file == SampleFile(ex.pick, ex.withData) IN
       Set([S EXCEPT !.ex.done = TRUE,
                     !.ex.out = parseLuaData(file),
                     !.ex.ledger = parseResults(extractScribeyDBFromAST(file.ast))])

\* luaAstToJson on the literal of one value tree
Decode ==
    /\ ~ex.done
    /\ Set([S EXCEPT !.ex.done = TRUE,
                     !.ex.out = luaAstToJson(Encode(ex.tree))])

\* extractScribeyDBFromAST on one file
Locate ==
    /\ ~ex.done
    /\ Set([S EXCEPT !.ex.done = TRUE,
                     !.ex.out = extractScribeyDBFromAST(ChunkOf(ex.pick))])

\* luaAstToJson on one table constructor
DecodeTable ==
    /\ ~ex.done
    /\ Set([S EXCEPT !.ex.done = TRUE,
                     !.ex.out = luaAstToJson(TableOf(ex.pick))])

---------------------------------------------------------------------------
(* The upload queue over unbounded time.  Date.now() only enters the      *)
(* uploader through differences (line 140) and through the delay of its   *)
(* timers, so the clock is kept at StartTime and the passing of TickMs    *)
(* moves every recorded time back by that much; a time that far back that *)
(* no comparison can tell it from 0 stays 0.  The attempt counts of the   *)
(* history are not kept, so that an endless retry is a cycle of states.   *)

Back(t) == IF t > TickMs THEN t - TickMs ELSE 0

Elapse(s) ==
    [s EXCEPT !.timers = Tuple([i \in 1..Len(@) |-> Back(@[i])]),
              !.lastUploadAttempt = Back(@),
              !.uploadQueue = Tuple([i \in 1..Len(@) |->
                                       [@[i] EXCEPT !.timestamp = Back(@)]]),
              !.cycles = Tuple([k \in 1..Len(@) |->
                                  [@[k] EXCEPT !.batch =
                                      Tuple([j \in 1..Len(@) |->
                                               [@[j] EXCEPT !.timestamp = Back(@)]])]])]

Forget(s) ==
    [s EXCEPT !.hist.attempts = Tuple([i \in 1..Len(@) |-> 0]),
              !.hist.fails = Tuple([i \in 1..Len(@) |-> 0]),
              !.hist.lastSendAt = -1]

LiveTick == Set(Elapse(S))

LiveUploadData ==
    /\ hist.nextId <= MaxItems
    /\ Set(Forget(uploadData(S, DirectData, DirectPath)))

LiveTimerFire ==
    /\ Len(timers) > 0
    /\ timers[1] <= now
    /\ Set(Forget(processUploadQueue([S EXCEPT !.timers = Tail(@)])))

\* the awaited upload is answered, or fails, or times out
LiveUploadDone ==
    \E k \in 1..Len(cycles), o \in Outcomes : Set(Forget(resumeCycle(S, k, o)))

---------------------------------------------------------------------------
(* Specifications *)

\* the upload queue under direct calls
Next ==
    \/ Tick
    \/ UploadData
    \/ RetryFailedUploads
    \/ ClearQueue
    \/ TimerFire
    \/ UploadDone

Spec == Init /\ [][Next]_vars

\* the same, with testConnection / forceSyncAll requests on the shared client
NextRequests ==
    \/ Next
    \/ RequestStart
    \/ RequestDone

SpecRequests == Init /\ [][NextRequests]_vars

\* deliveries, with a config whose character list is written
NextSync ==
    \/ Tick
    \/ UploadData
    \/ TimerFire
    \/ UploadDone
    \/ SetCharacters

SpecSync == Init /\ [][NextSync]_vars

\* a burst of calls within one clock reading
NextBurst ==
    \/ BurstUploadData
    \/ RetryFailedUploads
    \/ UploadDone

SpecBurst == Init /\ [][NextBurst]_vars

\* the watcher feeding the queue
NextWatcher ==
    \/ CoarseTick
    \/ FileEvent
    \/ StartBegin
    \/ StartResume
    \/ Stop
    \/ SetAutoUpload
    \/ TimerFire
    \/ Delivered

SpecWatcher == Init /\ [][NextWatcher]_vars

\* the extractor alone
NextExtract == Extract

SpecExtract == InitExtract /\ [][NextExtract]_vars

\* the requests of the program and the device id they carry
NextConfig ==
    \/ MachineIdSettled
    \/ SetDeviceId
    \/ Reset
    \/ UploadData
    \/ Delivered
    \/ TestConnection
    \/ RequestStart
    \/ RequestDone
    \/ RegisterDevice
    \/ CheckRegistration

SpecConfig == InitConfig /\ [][NextConfig]_vars

\* uploads answered around a stop(): the watcher is started and stopped
\* while the uploads it has enqueued are answered
NextStop ==
    \/ StartBegin
    \/ StartResume
    \/ Stop
    \/ UploadDone

SpecStop == Init /\ [][NextStop]_vars

\* start() over every kind of install path
NextStart ==
    \/ SetWowPath
    \/ StartRacing
    \/ StartResume
    \/ Stop

SpecStart == Init /\ [][NextStart]_vars

\* the upload queue for ever: time passes, timers fire when they are due,
\* every request is answered
NextLive ==
    \/ LiveTick
    \/ LiveUploadData
    \/ LiveTimerFire
    \/ LiveUploadDone

SpecLive ==
    /\ Init
    /\ [][NextLive]_vars
    /\ WF_vars(LiveTick)
    /\ WF_vars(LiveTimerFire)
    /\ WF_vars(LiveUploadDone)

\* the extraction entry point on files
SpecChunks == InitChunks /\ [][Locate]_vars

\* the decoder on table constructors
SpecTables == InitTables /\ [][DecodeTable]_vars

\* the decoder alone
NextDecode == Decode

SpecDecode == InitDecode /\ [][NextDecode]_vars

---------------------------------------------------------------------------
(* Properties *)

Sent(h) == SumSeq(h.attempts)

\* C1: single-flight drain.  At most one processUploadQueue call is
\* executing at any time, and while one is, a step that is not the
\* resumption of that call (an uploadData call, a retryFailedUploads call,
\* a drain timer firing) starts no cycle and sends no upload request.
SingleFlightDrain ==
    [][ /\ Len(cycles') <= 1
        /\ (Len(cycles) = 1 /\ cycles' = cycles) => Sent(hist') = Sent(hist) ]_vars

\* an uploadData call arrived while the one-item cycle was executing: its
\* item waits in the queue
SingleFlightDrainWitness ==
    /\ Len(cycles) = 1
    /\ isUploading
    /\ Len(cycles[1].batch) = 1
    /\ Len(uploadQueue) > 0
    /\ Sent(hist) = 1

\* C2: bounded retry.  No queue item receives more than 5 delivery attempts.
BoundedRetry ==
    \A id \in 1..Len(hist.attempts) : hist.attempts[id] <= RETRY_LIMIT

\* C3: requeue-or-drop by the item's own failure count.  An item is dropped
\* only when its own deliveries have failed 5 times.
DroppedOnOwnFailures ==
    \A id \in hist.dropped : hist.fails[id] >= RETRY_LIMIT

\* C4, as stated: once the consecutive-failure count f is 3 or more, an
\* upload request is sent no sooner than min(f*5000, 30000) ms after the
\* previous one.
BackoffRateLimit ==
    [][ (/\ Sent(hist') > Sent(hist)
         /\ consecutiveFailures' >= BACKOFF_THRESHOLD
         /\ hist.lastSendAt >= 0)
        => now' - hist.lastSendAt >= backoffTime(consecutiveFailures') ]_vars

\* C4: backoff between drain cycles.  A drain cycle that starts while the
\* consecutive-failure count f is 3 or more sends its first upload request
\* no sooner than min(f*5000, 30000) ms after the previous upload request.
BackoffBetweenCycles ==
    [][ (/\ Len(cycles') > Len(cycles)
         /\ consecutiveFailures' >= BACKOFF_THRESHOLD
         /\ hist.lastSendAt >= 0)
        => now' - hist.lastSendAt >= backoffTime(consecutiveFailures') ]_vars

\* a cycle has just started with f >= 3, after an earlier batch
BackoffBetweenCyclesWitness ==
    /\ Len(cycles) = 1
    /\ cycles[1].i = 1
    /\ consecutiveFailures >= BACKOFF_THRESHOLD
    /\ hist.lastSendAt = now
    /\ lastUploadAttempt > 0
    /\ now - lastUploadAttempt >= backoffTime(consecutiveFailures)

\* C5: batch bound.  The step that starts a drain cycle takes the
\* min(5, length) items at the head of the queue (the queue with the item
\* the same call has just appended), in queue order, and leaves the items
\* behind them queued in their order.
BatchBound ==
    [][ Len(cycles') > Len(cycles) =>
          LET batch == cycles'[Len(cycles')].batch
              before == batch \o uploadQueue'
          IN /\ Len(batch) = Min(BATCH_SIZE, Len(before))
             /\ \/ before = uploadQueue
                \/ /\ Len(before) = Len(uploadQueue) + 1
                   /\ SubSeq(before, 1, Len(uploadQueue)) = uploadQueue
                   /\ before[Len(before)].id = hist.nextId ]_vars

\* a cycle has taken five items of a longer queue
BatchBoundWitness ==
    /\ Len(cycles) = 1
    /\ cycles[1].i = 1
    /\ Len(cycles[1].batch) = BATCH_SIZE
    /\ Len(uploadQueue) > 0

\* C6: duplicate suppression.  A handleFileChange call that reads the
\* content cached for its path decodes nothing and enqueues nothing.
DuplicateSuppressed ==
    (hist.ev.read \in Contents /\ hist.ev.read = hist.ev.cached)
      => ~hist.ev.decoded /\ ~hist.ev.enqueued

\* the same content was fed again for a path whose first feed was enqueued
DuplicateSuppressedWitness ==
    /\ hist.ev.read \in Contents
    /\ hist.ev.read = hist.ev.cached
    /\ hist.sessEnq[hist.ev.path] >= 0
    /\ hist.events >= 2

\* C7, as stated: two enqueues for one path are at least 30 s apart,
\* whatever start and stop calls lie between them.
CooldownAlways == \A g \in hist.gaps : g >= UPLOAD_COOLDOWN

\* C7: cooldown.  Two enqueues for one path with no stop() between them
\* (the one start() makes when the watcher is active included) are at
\* least 30 s apart.
CooldownWithinSession == \A g \in hist.sessGaps : g >= UPLOAD_COOLDOWN

\* a change of content was read within the cooldown of an enqueue for its
\* path and was not enqueued
CooldownWithinSessionWitness ==
    /\ hist.ev.read \in Contents
    /\ hist.ev.read # hist.ev.cached
    /\ hist.ev.cached # 0
    /\ hist.sessEnq[hist.ev.path] >= 0
    /\ now - hist.sessEnq[hist.ev.path] < UPLOAD_COOLDOWN
    /\ ~hist.ev.decoded
    /\ ~hist.ev.enqueued

\* the character parseScribeyCharacterFromJson makes of entry i on its own
Alone(i) ==
    parseScribeyCharacterFromJson(CharKeys[i], luaAstToJson(CharSamples[ex.pick[i]]))

Given == {i \in 1..Len(CharKeys) : ex.pick[i] # 0}

\* C8: extraction isolation.  With a character_data section the snapshot
\* is produced, and it holds every entry whose own extraction succeeds,
\* whatever becomes of the other entries.
ExtractionIsolation ==
    (ex.done /\ ex.withData) =>
       /\ ex.out.t = "addonData"
       /\ \A i \in Given :
            Alone(i).t = "character" =>
              \E j \in 1..Len(ex.out.characters) :
                 ex.out.characters[j] = <<CharKeys[i], Alone(i)>>

\* the first entry failed and a later one is in the snapshot
ExtractionIsolationWitness ==
    /\ ex.done
    /\ ex.out.t = "addonData"
    /\ Len(ex.ledger) >= 2
    /\ ~ex.ledger[1].parseSuccess
    /\ \E j \in 2..Len(ex.ledger) : ex.ledger[j].parseSuccess
    /\ Len(ex.out.characters) >= 1

\* C9: a malformed entry is a ledger failure.  For an entry whose value is
\* a number, a string or a boolean the ledger records a failure, and the
\* snapshot has no character under its key.
MalformedEntryFails ==
    (ex.done /\ ex.withData) =>
       \A i \in Given :
          ex.pick[i] \in NonMapSamples =>
            /\ \A j \in 1..Len(ex.ledger) :
                  ex.ledger[j].fullCharacterName = CharKeys[i]
                    => ~ex.ledger[j].parseSuccess
            /\ ex.out.t = "addonData" =>
                 \A j \in 1..Len(ex.out.characters) :
                    ex.out.characters[j][1] # CharKeys[i]

\* the content whose root table has no character_data
NoDataContent == CHOOSE c \in Contents : WatchFiles[c] = SampleFile(<<0, 0, 0>>, FALSE)

\* C10: no data, no snapshot.  parseLuaData returns null for a root table
\* without character_data, and a handleFileChange call that decodes such a
\* content leaves the upload queue as it is: nothing is enqueued, no cycle
\* starts, nothing is sent.
NoDataNoSnapshot ==
    [][ (/\ hist'.events = hist.events + 1
         /\ hist'.ev.read = NoDataContent
         /\ hist'.ev.decoded)
        => /\ Parsed[NoDataContent] = JNull
           /\ ~hist'.ev.enqueued
           /\ uploadQueue' = uploadQueue
           /\ cycles' = cycles
           /\ hist'.nextId = hist.nextId
           /\ Sent(hist') = Sent(hist) ]_vars

\* such a content was read as a change, outside the cooldown, and decoded
NoDataNoSnapshotWitness ==
    /\ hist.ev.read = NoDataContent
    /\ hist.ev.read # hist.ev.cached
    /\ hist.ev.decoded
    /\ ~hist.ev.enqueued
    /\ autoUpload

---------------------------------------------------------------------------
\* a step in which the awaited upload of the one active cycle is answered
\* with 200: the batch loop moves on and nothing is counted as a failure
DeliveryStep ==
    /\ Len(cycles) = 1
    /\ hist'.fails = hist.fails
    /\ \/ cycles' = <<>>
       \/ Len(cycles') = 1 /\ cycles'[1].i = cycles[1].i + 1

DeliveredItem == cycles[1].batch[cycles[1].i]

\* C11: after a successful delivery the config holds, for every character
\* of the delivered snapshot, a last-sync timestamp set by that delivery.
SyncBookkeeping ==
    [][DeliveryStep =>
         \A e \in 1..Len(DeliveredItem.data.characters) :
            LET fullName == DeliveredItem.data.characters[e][1] IN
            \E i \in 1..Len(characters') :
               /\ characters'[i].name = fullName[1]
               /\ characters'[i].realm = fullName[2]
               /\ characters'[i].lastSync = DeliveredItem.timestamp]_vars

---------------------------------------------------------------------------
\* property k of the decoded table d when d has it, else the default
FieldOr(d, k, default) == IF HasKey(d.e, <<k>>) THEN Lookup(d.e, <<k>>) ELSE default

\* the elements of a professions array that have a name, in array order
NamedProfessions(profs) ==
    LET R[i \in 0..Len(profs)] ==
          IF i = 0 THEN <<>>
          ELSE IF profs[i].t = "object" /\ HasKey(profs[i].e, <<"name">>)
               THEN Append(R[i - 1],
                           [t |-> "profession",
                            name |-> Lookup(profs[i].e, <<"name">>),
                            skillLevel |-> FieldOr(profs[i], "skill_level", JNum(0)),
                            maxSkill |-> FieldOr(profs[i], "max_skill_level",
                                                 JNum(DEFAULT_MAX_SKILL))])
               ELSE R[i - 1]
    IN R[Len(profs)]

\* C12: character derivation.  An entry that is a map under a key
\* "Name-Realm" is extracted with the explicit name and realm when present,
\* else the parts of the key; its class or the default; and one profession
\* per named element, in order, with skill level 0 and max skill 525 only
\* when the element has none.
CharacterDerivation ==
    (ex.done /\ ex.withData) =>
       \A i \in Given :
          LET d == luaAstToJson(CharSamples[ex.pick[i]])
              profs == FieldOr(d, "professions", JArr(<<>>))
          IN (d.t = "object" /\ Len(CharKeys[i]) = 2) =>
               /\ ex.out.t = "addonData"
               /\ \E j \in 1..Len(ex.out.characters) :
                     /\ ex.out.characters[j][1] = CharKeys[i]
                     /\ ex.out.characters[j][2] =
                          [t |-> "character",
                           name |-> FieldOr(d, "character_name", Str(CharKeys[i][1])),
                           realm |-> FieldOr(d, "realm_name", Str(CharKeys[i][2])),
                           class |-> FieldOr(d, "class", Str("WARRIOR")),
                           professions |-> NamedProfessions(profs.a)]

---------------------------------------------------------------------------
\* V with every empty Map in it replaced by an empty Array
RECURSIVE Normalized(_)
Normalized(V) ==
    CASE V.t = "array" -> JArr(Tuple([i \in 1..Len(V.a) |-> Normalized(V.a[i])]))
      [] V.t = "object" ->
           IF V.e = <<>> THEN JArr(<<>>)
           ELSE JObj(Tuple([i \in 1..Len(V.e) |-> <<V.e[i][1], Normalized(V.e[i][2])>>]))
      [] OTHER -> V

\* C13: decoder round trip.  Decoding the table literal that encodes a
\* value tree V yields V, an empty Map being returned as an empty Array.
DecoderRoundTrip == ex.done => ex.out = Normalized(ex.tree)

---------------------------------------------------------------------------
\* C14: stable device identity.  Any two calls of getDeviceId in one
\* process lifetime return the same value.
StableDeviceId == Cardinality(hist.ids) <= 1

\* C15: identity on every request.  Every request the program issues
\* carries the X-Device-ID header.
HeaderOnEveryRequest == \A w \in hist.wire : w.header # ""

---------------------------------------------------------------------------
\* C16: forceSyncAll leaves the queue alone.  Neither the call nor the
\* answer to its request, fulfilled or rejected, with or without an active
\* drain cycle, removes, adds or reorders a queue item or starts a cycle.
ForceSyncLeavesQueue ==
    [][requests' # requests =>
         /\ uploadQueue' = uploadQueue
         /\ cycles' = cycles
         /\ isUploading' = isUploading
         /\ timers' = timers
         /\ Sent(hist') = Sent(hist)]_vars

\* a sync request in flight while a cycle is active and an item is queued
ForceSyncLeavesQueueWitness ==
    /\ requests > 0
    /\ \E w \in hist.wire : w.kind = "sync"
    /\ Len(cycles) = 1
    /\ Len(uploadQueue) > 0

---------------------------------------------------------------------------
\* nothing is watched and no path has a cached content or a cooldown stamp
Cleared ==
    /\ ~isActive
    /\ watcher = {}
    /\ watchedFiles = <<>>
    /\ \A p \in Paths : lastFileContents[p] = 0 /\ fileUploadAttempt[p] = 0

\* one handleFileChange call that reads a content, for a path that has
\* neither a cached content nor a cooldown stamp
FirstEventStep ==
    /\ hist'.events = hist.events + 1
    /\ hist'.ev.read \in Contents
    /\ lastFileContents[hist'.ev.path] = 0
    /\ fileUploadAttempt[hist'.ev.path] = 0

\* C17: stop() is a hard reset.  Right after a stop() of an active watcher
\* the watcher is inactive, nothing is watched and every path's cached
\* content and cooldown stamp are cleared; and an event for a path in that
\* cleared condition is taken as new content outside any cooldown (it is
\* decoded).
StopIsHardReset ==
    [][/\ (isActive /\ ~isActive') => Cleared'
       /\ FirstEventStep => hist'.ev.decoded]_vars

\* stopped after a snapshot of some path was enqueued, that path cleared
StopIsHardResetWitness ==
    /\ Cleared
    /\ \E p \in Paths : hist.lastEnq[p] >= 0

---------------------------------------------------------------------------
\* a step in which the awaited upload of the one active cycle is answered
CompletionStep ==
    /\ Len(cycles) = 1
    /\ \/ cycles' = <<>>
       \/ Len(cycles') = 1 /\ cycles'[1].i = cycles[1].i + 1

\* C18: no effect after stop.  The answer to an upload that was in flight
\* when stop() was called changes neither the queue, nor the
\* consecutive-failure counter, nor the config's sync timestamps, nor the
\* watcher status.
NoEffectAfterStop ==
    [][(~isActive /\ CompletionStep) =>
         /\ uploadQueue' = uploadQueue
         /\ consecutiveFailures' = consecutiveFailures
         /\ characters' = characters
         /\ isActive' = isActive
         /\ watchedFiles' = watchedFiles
         /\ lastError' = lastError]_vars

---------------------------------------------------------------------------
\* a start() call that throws before its glob: no path, a root that is not
\* valid, or no WTF directory
FailedBegin ==
    /\ hist'.starts = hist.starts + 1
    /\ starting' = starting

\* a start() call whose glob has found no file
FailedResume ==
    /\ Len(starting') = Len(starting) - 1
    /\ lastError' = "No Scribey.lua files found"

\* a start() call that returns without an error
SucceededResume ==
    /\ Len(starting') = Len(starting) - 1
    /\ lastError' # "No Scribey.lua files found"

\* C19: start() fails loudly.  A start() that ends with an error (no path,
\* invalid root, no WTF directory, no data file) leaves the watcher
\* inactive with no watched path, and a start() that succeeds watches at
\* least one path.
StartFailsLoudly ==
    [][/\ (FailedBegin \/ FailedResume) => (~isActive' /\ watchedFiles' = <<>>)
       /\ SucceededResume => (isActive' /\ watchedFiles' # <<>>)]_vars

---------------------------------------------------------------------------
\* one handleFileChange call that hands parseLuaData a text that does not
\* parse
DecodeFailureStep ==
    /\ hist'.events = hist.events + 1
    /\ hist'.ev.decoded
    /\ ~WatchFiles[hist'.ev.read].parsed

\* C20: decode failures are absorbed and surfaced.  When the decode of a
\* changed file fails an active watcher stays active and the
\* failure is recorded in lastError.
DecodeFailureSurfaced ==
    [][DecodeFailureStep =>
         /\ isActive => isActive'
         /\ lastError' # "none"]_vars

---------------------------------------------------------------------------
\* character c of the config is one of the characters of the snapshot
InSnapshot(c, item) ==
    \E e \in 1..Len(item.data.characters) :
       LET fullName == item.data.characters[e][1] IN
       c.name = fullName[1] /\ c.realm = fullName[2]

\* C21: config writes only after success.  Outside a config request the
\* pipeline changes the config only in a step that delivers an item, and
\* then only the last-sync timestamp of characters of that item, which
\* becomes the item's timestamp.
ConfigWritesAfterSuccess ==
    [][hist'.writes = hist.writes =>
         /\ wowPath' = wowPath
         /\ autoUpload' = autoUpload
         /\ storedDeviceId' = storedDeviceId
         /\ characters' # characters =>
              /\ DeliveryStep
              /\ Len(characters') = Len(characters)
              /\ \A i \in 1..Len(characters) :
                    \/ characters'[i] = characters[i]
                    \/ /\ InSnapshot(characters[i], DeliveredItem)
                       /\ characters'[i] =
                            [characters[i] EXCEPT !.lastSync = DeliveredItem.timestamp]]_vars

\* a sync timestamp has been written, and some delivery has failed
ConfigWritesAfterSuccessWitness ==
    /\ \E i \in 1..Len(characters) : characters[i].lastSync > 0
    /\ \E j \in 1..Len(hist.fails) : hist.fails[j] > 0

---------------------------------------------------------------------------
\* item id is queued, or in the batch of a cycle and not yet settled
InSystem(id) ==
    \/ \E i \in 1..Len(uploadQueue) : uploadQueue[i].id = id
    \/ \E k \in 1..Len(cycles) :
          \E j \in cycles[k].i..Len(cycles[k].batch) : cycles[k].batch[j].id = id

\* C22: every item terminates.  When timers fire and every request is
\* answered, an enqueued item is in the end delivered or dropped: it does
\* not stay queued, or requeued and sent again, for ever.
EveryItemTerminates ==
    \A id \in 1..MaxItems : InSystem(id) ~> ~InSystem(id)

---------------------------------------------------------------------------
\* a pending timer fires in this step
TimerStep == timers' # timers /\ Len(timers') <= Len(timers)

\* uploadData is called in this step
EnqueueStep == hist'.nextId = hist.nextId + 1

\* a step in which processUploadQueue passes its guard: a drain cycle starts
CycleEntry ==
    /\ ~isUploading
    /\ (TimerStep /\ Len(uploadQueue) > 0) \/ EnqueueStep

\* the backoff test of the state the cycle starts in
HeldBack ==
    /\ consecutiveFailures >= BACKOFF_THRESHOLD
    /\ now - lastUploadAttempt < Min(consecutiveFailures * BACKOFF_STEP, BACKOFF_MAX)

\* C23: the backoff gate consumes nothing.  A drain cycle that starts with
\* f >= 3 and less than min(f*5000, 30000) ms since the last attempt sends
\* no request and leaves the queue, its order, the failure counter and the
\* last-attempt time as they are; any other cycle takes a batch.
BackoffGateConsumesNothing ==
    [][CycleEntry =>
         IF HeldBack
         THEN /\ Sent(hist') = Sent(hist)
              /\ cycles' = cycles
              /\ Len(uploadQueue') = Len(uploadQueue) + (hist'.nextId - hist.nextId)
              /\ SubSeq(uploadQueue', 1, Len(uploadQueue)) = uploadQueue
              /\ consecutiveFailures' = consecutiveFailures
              /\ lastUploadAttempt' = lastUploadAttempt
         ELSE /\ Len(cycles') = Len(cycles) + 1
              /\ Len(cycles'[Len(cycles')].batch) >= 1
              /\ Sent(hist') = Sent(hist) + 1]_vars

\* a cycle has just been held back: its finally has armed a timer at a time
\* when no batch ended
BackoffGateConsumesNothingWitness ==
    /\ ~isUploading
    /\ Len(uploadQueue) > 0
    /\ HeldBack
    /\ lastUploadAttempt < now
    /\ Len(timers) > 0
    /\ timers[Len(timers)] = now + DRAIN_DELAY

---------------------------------------------------------------------------
\* C24: every failure is counted.  A step in which the delivery of an item
\* fails (network error, timeout, or an answer whose status is not 200)
\* raises the consecutive-failure counter by one.
EveryFailureCounted ==
    [][(\E id \in 1..Len(hist.fails) : hist'.fails[id] = hist.fails[id] + 1)
         => consecutiveFailures' = consecutiveFailures + 1]_vars

---------------------------------------------------------------------------
\* the batch loop of the active cycle ends in this step
CycleEnd == isUploading /\ ~isUploading'

\* C25: no stranded queue.  A drain cycle that ends, its batch processed or
\* held back by the backoff, with a non-empty queue arms a drain 1 s later
\* and sends nothing itself; and whenever the queue is not empty a cycle is
\* executing or a drain timer is pending.
NoStrandedQueue ==
    [][/\ ((CycleEnd \/ (CycleEntry /\ HeldBack)) /\ Len(uploadQueue') > 0) =>
            /\ ~isUploading'
            /\ Sent(hist') = Sent(hist)
            /\ Len(timers') > 0
            /\ timers'[Len(timers')] = now' + DRAIN_DELAY
       /\ Len(uploadQueue') > 0 => (isUploading' \/ Len(timers') > 0)]_vars

\* a batch has just ended with items left: nothing is in flight, a timer
\* is armed
NoStrandedQueueWitness ==
    /\ ~isUploading
    /\ Len(uploadQueue) > 0
    /\ lastUploadAttempt = now
    /\ Len(timers) > 0
    /\ timers[Len(timers)] = now + DRAIN_DELAY

---------------------------------------------------------------------------
\* C26: sync and status requests are independent of the retry state.  The
\* answer to a forceSyncAll or testConnection request, whatever it is,
\* leaves the consecutive-failure counter as it was.
RequestsLeaveCounter ==
    [][requests' < requests => consecutiveFailures' = consecutiveFailures]_vars

---------------------------------------------------------------------------
\* where item id is
TimesQueued(id) == Cardinality({i \in 1..Len(uploadQueue) : uploadQueue[i].id = id})

Queued(id) == TimesQueued(id) > 0

InBatch(id) ==
    \E k \in 1..Len(cycles) :
       \E j \in 1..Len(cycles[k].batch) : cycles[k].batch[j].id = id

\* in flight, or waiting for its turn in the batch
Unsettled(id) ==
    \E k \in 1..Len(cycles) :
       \E j \in cycles[k].i..Len(cycles[k].batch) : cycles[k].batch[j].id = id

Ids == 1..Len(hist.attempts)

\* C27, as stated: no item is at once in the queue and in the batch that
\* is being sent.
NeverInQueueAndBatch == \A id \in Ids : ~(Queued(id) /\ InBatch(id))

\* C27: an item is in one place at a time.  An item is in the queue at
\* most once and never both queued and unsettled in a batch (in flight or
\* waiting for its turn); it is sent only after each earlier attempt has
\* failed, and an item whose last attempt has not failed is not queued.
OnePlaceAtATime ==
    \A id \in Ids :
       /\ TimesQueued(id) <= 1
       /\ ~(Queued(id) /\ Unsettled(id))
       /\ hist.attempts[id] <= hist.fails[id] + 1
       /\ hist.attempts[id] = hist.fails[id] + 1 => ~Queued(id)

\* an item that failed is back in the queue while a later item of its
\* batch is in flight
OnePlaceAtATimeWitness ==
    \E a \in Ids, b \in Ids :
       /\ Queued(a) /\ InBatch(a) /\ hist.fails[a] >= 1
       /\ Unsettled(b)

---------------------------------------------------------------------------
\* one handleFileChange call, made for a change event, that reads a
\* content other than the one cached for its path
NewContentStep ==
    /\ hist'.events = hist.events + 1
    /\ starting' = starting
    /\ hist'.ev.read \in Contents
    /\ hist'.ev.read # lastFileContents[hist'.ev.path]

\* such a call refreshes the cache and lastUpdate and does nothing else
OnlyRefreshes ==
    /\ lastFileContents' =
         [lastFileContents EXCEPT ![hist'.ev.path] = hist'.ev.read]
    /\ lastUpdate' = now
    /\ ~hist'.ev.decoded
    /\ ~hist'.ev.enqueued
    /\ fileUploadAttempt' = fileUploadAttempt
    /\ UNCHANGED <<uploadQueue, cycles, timers, isUploading, consecutiveFailures,
                   lastUploadAttempt, characters, isActive, watchedFiles, watcher,
                   lastError, now>>

\* C28, as stated: an event with new content less than 30 s after the
\* last triggered upload for its path refreshes the cached content and
\* lastUpdate and changes nothing else.
CooldownSkipAlways ==
    [][(/\ NewContentStep
        /\ hist.lastEnq[hist'.ev.path] >= 0
        /\ now - hist.lastEnq[hist'.ev.path] < UPLOAD_COOLDOWN)
       => OnlyRefreshes]_vars

\* C28: the cooldown skip still refreshes the cache.  An event with new
\* content less than 30 s after the last triggered upload for its path,
\* with no stop() since that upload, refreshes the cached content and
\* lastUpdate and changes nothing else.
CooldownSkipRefreshes ==
    [][(/\ NewContentStep
        /\ hist.sessEnq[hist'.ev.path] >= 0
        /\ now - hist.sessEnq[hist'.ev.path] < UPLOAD_COOLDOWN)
       => OnlyRefreshes]_vars

\* the last event was skipped by the cooldown and its content is cached
CooldownSkipRefreshesWitness ==
    /\ hist.ev.read \in Contents
    /\ hist.ev.cached # 0
    /\ hist.ev.read # hist.ev.cached
    /\ hist.sessEnq[hist.ev.path] >= 0
    /\ now - hist.sessEnq[hist.ev.path] < UPLOAD_COOLDOWN
    /\ lastFileContents[hist.ev.path] = hist.ev.read
    /\ lastUpdate = now

---------------------------------------------------------------------------
\* C29: cooldown stamp on every triggered event.  An event that carries
\* new content for a path outside the path's cooldown is decoded and
\* stamps the path's cooldown timestamp with the time of the event.
StampOnEveryTrigger ==
    [][(/\ NewContentStep
        /\ now - fileUploadAttempt[hist'.ev.path] >= UPLOAD_COOLDOWN)
       => /\ hist'.ev.decoded
          /\ fileUploadAttempt'[hist'.ev.path] = now]_vars

---------------------------------------------------------------------------
\* the item has been sent at least once
Attempted(item) == hist.attempts[item.id] > 0

\* C30: retries keep enqueue order.  The items that have failed and were
\* requeued stand at the head of the queue, ahead of every item that has
\* not been attempted, in the order in which they were enqueued.
RetriesKeepOrder ==
    \A i \in 1..Len(uploadQueue), j \in 1..Len(uploadQueue) :
       i < j =>
         /\ Attempted(uploadQueue[j]) => Attempted(uploadQueue[i])
         /\ (Attempted(uploadQueue[i]) /\ Attempted(uploadQueue[j]))
              => uploadQueue[i].id < uploadQueue[j].id

---------------------------------------------------------------------------
\* C31: one pending drain timer.  In every reachable state at most one
\* delayed drain (a setTimeout of line 172 that has not fired yet) is
\* pending.
OnePendingTimer == Len(timers) <= 1

---------------------------------------------------------------------------
\* C32: clearQueue empties the queue for good.  From the return of
\* clearQueue() to the next uploadData call the queue is empty, also when a
\* batch was being sent at the time of the call.
ClearedStaysEmpty == hist.cleared => uploadQueue = <<>>

---------------------------------------------------------------------------
\* the step is a retryFailedUploads() call
RetryStep == Set(retryFailedUploads(S))

\* C33: retryFailedUploads resets the failure state.  A call sets the
\* consecutive-failure counter to 0; with a non-empty queue and no cycle
\* executing it starts a cycle in the same step, which takes the batch at
\* the head of the queue and sends its first item whatever the backoff
\* would have been; with a cycle executing it starts none and sends nothing.
RetryResets ==
    [][RetryStep =>
         /\ consecutiveFailures' = 0
         /\ IF Len(uploadQueue) > 0 /\ cycles = <<>>
            THEN /\ isUploading'
                 /\ Len(cycles') = 1
                 /\ cycles'[1].batch = Take(uploadQueue, BATCH_SIZE)
                 /\ uploadQueue' = Drop(uploadQueue, BATCH_SIZE)
                 /\ Sent(hist') = Sent(hist) + 1
                 /\ timers' = timers
            ELSE /\ cycles' = cycles
                 /\ uploadQueue' = uploadQueue
                 /\ isUploading' = isUploading
                 /\ Sent(hist') = Sent(hist)]_vars

\* a cycle is executing that retryFailedUploads has started: the only item
\* is being sent for the second time, its first cycle ended at this clock
\* reading and the timer of that cycle is still pending
RetryResetsWitness ==
    /\ isUploading
    /\ consecutiveFailures = 0
    /\ hist.nextId = 2
    /\ hist.attempts = <<2>>
    /\ lastUploadAttempt = now
    /\ Len(timers) = 1
    /\ timers[1] > now

---------------------------------------------------------------------------
\* the delivery of item id fails in this step
FailedDelivery(id) == hist'.fails[id] = hist.fails[id] + 1

\* C34: delivery failures stay inside the queue.  A step in which the
\* delivery of an item fails leaves the change detector as it is (lastError,
\* the cached contents and the cooldown stamps of every path, and whether
\* the watcher is active), also when the handleFileChange that enqueued the
\* item is still awaiting uploadData; the item is back in the queue or dropped.
FailuresStayInQueue ==
    [][\A id \in 1..Len(hist.fails) :
         FailedDelivery(id) =>
           /\ lastError' = lastError
           /\ lastFileContents' = lastFileContents
           /\ fileUploadAttempt' = fileUploadAttempt
           /\ isActive' = isActive
           /\ \/ \E i \in 1..Len(uploadQueue') : uploadQueue'[i].id = id
              \/ id \in hist'.dropped]_vars

\* the delivery of an item that the watcher enqueued has failed and the
\* cycle that handleFileChange awaited has ended: the path is cached and
\* stamped, no error is recorded
FailuresStayInQueueWitness ==
    /\ isActive
    /\ lastError = "none"
    /\ cycles = <<>>
    /\ \E i \in 1..Len(uploadQueue) :
          /\ hist.fails[uploadQueue[i].id] > 0
          /\ lastFileContents[uploadQueue[i].filePath] # 0
          /\ fileUploadAttempt[uploadQueue[i].filePath] = uploadQueue[i].timestamp

---------------------------------------------------------------------------
\* one handleFileChange call, made for a change event, whose file is gone
\* or cannot be read
UnreadableStep ==
    /\ hist'.events = hist.events + 1
    /\ starting' = starting
    /\ hist'.ev.read \in {Missing, Unreadable}

\* C35: an unreadable file is recorded and skipped.  An event whose file no
\* longer exists, or whose read fails, records lastError, enqueues nothing,
\* leaves the cached content and the cooldown stamp of every path unchanged
\* and leaves the watcher active or inactive as it was.
UnreadableRecorded ==
    [][UnreadableStep =>
         /\ lastError' # "none"
         /\ uploadQueue' = uploadQueue
         /\ cycles' = cycles
         /\ hist'.nextId = hist.nextId
         /\ lastFileContents' = lastFileContents
         /\ fileUploadAttempt' = fileUploadAttempt
         /\ isActive' = isActive]_vars

---------------------------------------------------------------------------
\* the field carries an explicit key
Keyed(field) == field.type \in {"TableKey", "TableKeyString"}

\* no field holds a node outside the grammar
InGrammar(fields) ==
    \A i \in 1..Len(fields) :
       /\ ~IsThrown(luaAstToJson(fields[i].value))
       /\ Keyed(fields[i]) => ~IsThrown(luaAstToJson(fields[i].key))

\* the key an entry of the Map is filed under
EntryKey(field) == PropertyKey(luaAstToJson(field.key))

\* C36: table reduction by first field.  A constructor with no field
\* reduces to the empty Array; one whose first field has a key reduces to a
\* Map that holds, for every keyed field, its value under its key, and
\* nothing else when all fields are keyed; one whose first field has no key
\* reduces to an Array with one element per field, the value of the field
\* where the field has no key; and the reduction of a constructor whose
\* fields are all within the grammar never fails.
TableReduction ==
    LET fields == TableOf(ex.pick).fields
        out == ex.out
    IN (ex.done /\ InGrammar(fields)) =>
         /\ ~IsThrown(out)
         /\ Len(fields) = 0 => out = JArr(<<>>)
         /\ (Len(fields) > 0 /\ Keyed(fields[1])) =>
              /\ out.t = "object"
              /\ \A i \in 1..Len(fields) :
                    Keyed(fields[i]) =>
                      Lookup(out.e, EntryKey(fields[i])) = luaAstToJson(fields[i].value)
              /\ (\A i \in 1..Len(fields) : Keyed(fields[i])) =>
                    Len(out.e) = Cardinality({EntryKey(fields[i]) : i \in 1..Len(fields)})
         /\ (Len(fields) > 0 /\ ~Keyed(fields[1])) =>
              /\ out.t = "array"
              /\ Len(out.a) = Len(fields)
              /\ \A i \in 1..Len(fields) :
                    ~Keyed(fields[i]) => out.a[i] = luaAstToJson(fields[i].value)

---------------------------------------------------------------------------
\* the types of the nodes of a value that are outside the restricted grammar
RECURSIVE OutsideGrammar(_)
OutsideGrammar(ast) ==
    CASE ast.type \in {"StringLiteral", "NilLiteral", "BooleanLiteral",
                       "NumericLiteral", "Identifier"} -> {}
      [] ast.type = "UnaryExpression" /\ ast.operator = "-" ->
           OutsideGrammar(ast.argument)
      [] ast.type \in {"TableKey", "TableKeyString"} ->
           OutsideGrammar(ast.key) \cup OutsideGrammar(ast.value)
      [] ast.type = "TableValue" -> OutsideGrammar(ast.value)
      [] ast.type = "TableConstructorExpression" ->
           UNION {OutsideGrammar(ast.fields[i]) : i \in 1..Len(ast.fields)}
      [] OTHER -> {ast.type}

\* a file whose ScribeyDB holds the value as its character_data
FileWith(value) ==
    LuaFile(<<Assign(TABLE_NAME, Table(<<NameField("character_data", value)>>))>>)

\* C37: unsupported syntax fails the decode.  The reduction of a value that
\* holds, at any depth, a node outside the restricted grammar fails with an
\* error that names the type of such a node, and a file whose table holds
\* that value yields no snapshot.
UnsupportedFails ==
    (ex.done /\ OutsideGrammar(TableOf(ex.pick)) # {}) =>
       /\ IsThrown(ex.out)
       /\ ex.out.msg \in OutsideGrammar(TableOf(ex.pick))
       /\ parseLuaData(FileWith(TableOf(ex.pick))) = JNull

---------------------------------------------------------------------------
\* the positions at which the top-level assignment lists the table name
Targets(statement) ==
    IF statement.type # "AssignmentStatement" THEN {}
    ELSE {j \in 1..Len(statement.variables) :
            /\ statement.variables[j].type = "Identifier"
            /\ statement.variables[j].name = TABLE_NAME}

\* of those, the ones that have an expression at their position
Valued(statement) == {j \in Targets(statement) : j <= Len(statement.init)}

First(set) == CHOOSE x \in set : \A y \in set : x <= y

\* the reduced value of the expression at the first position of
\* `positions`; the "not found" signal when its reduction fails or there is
\* no expression there
ValueAt(statement, positions) ==
    LET j == First(positions) IN
    IF j > Len(statement.init) THEN JNull
    ELSE LET r == luaAstToJson(statement.init[j])
         IN IF IsThrown(r) THEN JNull ELSE r

\* as stated: the first top-level assignment that targets the table name
\* decides the result, and never a later one.
FirstMatchWins ==
    LET body == ChunkOf(ex.pick).body
        hits == {i \in 1..Len(body) : Targets(body[i]) # {}}
    IN ex.done =>
         ex.out = IF hits = {} THEN JNull
                  ELSE ValueAt(body[First(hits)], Targets(body[First(hits)]))

\* C38: first match wins.  The extraction entry point returns the reduced
\* value of the first top-level assignment, in source order, that gives the
\* table name an expression (an assignment that lists the name with no
\* expression at its position is passed over), and never that of a later
\* one; it returns the "not found" signal when the reduction of that value
\* fails and when no such assignment exists.
FirstValuedMatchWins ==
    LET body == ChunkOf(ex.pick).body
        hits == {i \in 1..Len(body) : Valued(body[i]) # {}}
    IN ex.done =>
         ex.out = IF hits = {} THEN JNull
                  ELSE ValueAt(body[First(hits)], Valued(body[First(hits)]))

\* a file with two assignments of different tables to the name has been
\* scanned: the result is the table of the earlier one
FirstValuedMatchWinsWitness ==
    LET body == ChunkOf(ex.pick).body IN
    /\ ex.done
    /\ \E i \in 1..Len(body), j \in 1..Len(body) :
          /\ i < j
          /\ \A h \in 1..(i - 1) : Targets(body[h]) = {}
          /\ Valued(body[i]) # {} /\ Valued(body[j]) # {}
          /\ ValueAt(body[i], Valued(body[i])) # JNull
          /\ ValueAt(body[j], Valued(body[j])) # JNull
          /\ ValueAt(body[i], Valued(body[i])) # ValueAt(body[j], Valued(body[j]))
          /\ ex.out = ValueAt(body[i], Valued(body[i]))

====
